---- MODULE Spec2Model ----
(***************************************************************************)
(* A model of the Markdown editor of src/App.tsx: the toolbar's line       *)
(* transformer (modifySelectedLines), the inline wrapper                   *)
(* (insertTextAroundSelection), the code block insertion, the initial      *)
(* document taken from the URL, the file loader, the debounced preview,    *)
(* the share and copy actions and the timers of the status messages.       *)
(*                                                                         *)
(* A string is a sequence of one-character strings; offsets are the        *)
(* zero-based offsets of the source.                                       *)
(***************************************************************************)
EXTENDS Integers, Sequences, FiniteSets, TLC

VARIABLES
    leftMarkdown,                 \* React state: the Document
    value,                        \* the textarea's value (leftTextareaRef.current.value)
    selectionStart,               \* the textarea's selection
    selectionEnd,
    leftDesiredSelectionStart,    \* React state: the staged selection, NULL when none
    leftDesiredSelectionEnd,
    documentOutput,               \* React state: the rendered preview
    previewTimers,                \* pending debounce timers, each the Document it captured
    handler,                      \* the timer the preview effect's cleanup will clear
    previewDeps,                  \* the leftMarkdown the preview effect last ran with
    loadFileFeedback,             \* React state: the load-file status message
    feedbackTimers,               \* number of pending timers that clear loadFileFeedback
    readers,                      \* file reads in flight (FileReader.readAsText)
    search,                       \* window.location.search: the md query parameter
    shareLinkFeedback,            \* React state: the share status message
    shareTimers,                  \* pending timers that clear shareLinkFeedback, oldest first
    shareWrites,                  \* clipboard writes of handleShareLink still awaited
    copyPreviewFeedback,          \* React state: the copy-preview status message
    copyTimers,                   \* pending timers that clear copyPreviewFeedback, oldest first
    copyWrites,                   \* clipboard writes of handleCopyPreviewContent still awaited
    clipboard,                    \* the system clipboard
    shared,                       \* history: the Document whose link the clipboard holds
    pc,                           \* position of the React update cycle
    last,                         \* history: the last callback that ran and the state it read
    steps,                        \* history: number of user actions so far
    doc0,                         \* history: the Document and selection at the start
    sel0

vars == <<leftMarkdown, value, selectionStart, selectionEnd,
          leftDesiredSelectionStart, leftDesiredSelectionEnd, documentOutput,
          previewTimers, handler, previewDeps, loadFileFeedback, feedbackTimers,
          readers, search, shareLinkFeedback, shareTimers, shareWrites,
          copyPreviewFeedback, copyTimers, copyWrites, clipboard, shared,
          pc, last, steps, doc0, sel0>>

NULL == -1
NoTimer == <<"none">>

Max(a, b) == IF a >= b THEN a ELSE b
Min(a, b) == IF a <= b THEN a ELSE b

-----------------------------------------------------------------------------
(* String primitives of the JavaScript runtime, as the source uses them.   *)

\* s.substring(a, b), 0 <= a <= b
substring(s, a, b) == SubSeq(s, a + 1, Min(b, Len(s)))

\* s.substring(a)
substringFrom(s, a) == SubSeq(s, a + 1, Len(s))

\* s.indexOf(c) for a single character c
indexOf(s, c) ==
    IF \E k \in 1..Len(s) : s[k] = c
    THEN (CHOOSE k \in 1..Len(s) : s[k] = c /\ \A j \in 1..(k - 1) : s[j] # c) - 1
    ELSE -1

startsWith(s, p) == Len(s) >= Len(p) /\ SubSeq(s, 1, Len(p)) = p

endsWith(s, p) == Len(s) >= Len(p) /\ SubSeq(s, Len(s) - Len(p) + 1, Len(s)) = p

\* value.split('\n')
RECURSIVE split(_)
split(s) ==
    LET k == indexOf(s, "\n")
    IN  IF k = -1 THEN <<s>>
        ELSE <<substring(s, 0, k)>> \o split(substringFrom(s, k + 1))

\* lines.join('\n')
RECURSIVE join(_)
join(ls) ==
    IF Len(ls) = 0 THEN <<>>
    ELSE IF Len(ls) = 1 THEN ls[1]
    ELSE ls[1] \o <<"\n">> \o join(Tail(ls))

\* the characters \s matches among those of the model's alphabets
isSpace(c) == c \in {" ", "\t"}

Digits == <<"0", "1", "2", "3", "4", "5", "6", "7", "8", "9">>
isDigit(c) == \E d \in 1..10 : Digits[d] = c
digitValue(c) == (CHOOSE d \in 1..10 : Digits[d] = c) - 1

\* number of leading characters of s, from offset a on, that satisfy the class
RECURSIVE spanSpace(_, _)
spanSpace(s, a) ==
    IF a < Len(s) /\ isSpace(s[a + 1]) THEN 1 + spanSpace(s, a + 1) ELSE 0

RECURSIVE spanDigits(_, _)
spanDigits(s, a) ==
    IF a < Len(s) /\ isDigit(s[a + 1]) THEN 1 + spanDigits(s, a + 1) ELSE 0

\* parseInt(digits, 10) of a string of digits
RECURSIVE parseInt(_)
parseInt(ds) ==
    IF Len(ds) = 0 THEN 0
    ELSE 10 * parseInt(SubSeq(ds, 1, Len(ds) - 1)) + digitValue(ds[Len(ds)])

\* the decimal text of n >= 0, as a template literal prints it
RECURSIVE numberToString(_)
numberToString(n) ==
    IF n < 10 THEN <<Digits[n + 1]>>
    ELSE numberToString(n \div 10) \o <<Digits[(n % 10) + 1]>>

\* line.match(/^\s*-\s+/): the length of match[0], 0 when there is no match
ulMatch(line) ==
    LET w == spanSpace(line, 0)
        t == spanSpace(line, w + 1)
    IN  IF w < Len(line) /\ line[w + 1] = "-" /\ t >= 1 THEN w + 1 + t ELSE 0

\* line.match(/^\s*(\d+)\.\s+/): length of match[0] (0: no match) and group 1
olMatch(line) ==
    LET w == spanSpace(line, 0)
        d == spanDigits(line, w)
        t == spanSpace(line, w + d + 1)
    IN  IF d >= 1 /\ w + d < Len(line) /\ line[w + d + 1] = "." /\ t >= 1
        THEN [len |-> w + d + 1 + t, num |-> substring(line, w, w + d)]
        ELSE [len |-> 0, num |-> <<>>]

\* line.match(/^\s*1\.\s+/)
ol1Match(line) ==
    LET w == spanSpace(line, 0)
    IN  /\ w + 1 < Len(line)
        /\ line[w + 1] = "1"
        /\ line[w + 2] = "."
        /\ spanSpace(line, w + 2) >= 1

-----------------------------------------------------------------------------
(* Selection-to-lines mapping: the loop at the top of modifySelectedLines. *)

\* One run of the for loop from index i on; st and en are startLineIndex and
\* endLineIndex so far (-1: not found yet).
RECURSIVE lineLoop(_, _, _, _, _, _, _)
lineLoop(lines, i, currentLineStart, selStart, selEnd, st, en) ==
    IF i >= Len(lines) THEN <<st, en>>
    ELSE LET lineLength == Len(lines[i + 1]) + 1
             st1 == IF selStart >= currentLineStart /\ selStart < currentLineStart + lineLength
                    THEN i ELSE st
             en1 == IF selEnd > currentLineStart /\ selEnd <= currentLineStart + lineLength
                    THEN i ELSE en
             en2 == IF selEnd = currentLineStart /\ selEnd > 0 THEN i - 1 ELSE en1
         IN  IF st1 # -1 /\ en2 # -1 THEN <<st1, en2>>
             ELSE lineLoop(lines, i + 1, currentLineStart + lineLength, selStart, selEnd, st1, en2)

\* <<startLineIndex, endLineIndex>> as modifySelectedLines uses them
lineRange(text, selStart, selEnd) ==
    LET lines == split(text)
        found == lineLoop(lines, 0, 0, selStart, selEnd, -1, -1)
        startLineIndex ==
            IF found[1] = -1 /\ selStart = Len(text) /\ Len(lines) > 0 THEN Len(lines) - 1
            ELSE IF found[1] = -1 THEN 0
            ELSE found[1]
        endLineIndex ==
            IF found[2] = -1 /\ selEnd = Len(text) /\ Len(lines) > 0 THEN Len(lines) - 1
            ELSE IF found[2] = -1 THEN startLineIndex
            ELSE found[2]
    IN  <<startLineIndex, endLineIndex>>

-----------------------------------------------------------------------------
(* The per-line rewrite rules and the ordered-list renumbering pass.       *)

headingRule(line) ==
    IF startsWith(line, <<"#", "#", "#", " ">>)
    THEN [line |-> substringFrom(line, 4), change |-> -4]
    ELSE IF startsWith(line, <<"#", "#", " ">>)
    THEN [line |-> <<"#", "#", "#", " ">> \o substringFrom(line, 3), change |-> 1]
    ELSE IF startsWith(line, <<"#", " ">>)
    THEN [line |-> <<"#", "#", " ">> \o substringFrom(line, 2), change |-> 1]
    ELSE [line |-> <<"#", " ">> \o line, change |-> 2]

ulRule(line) ==
    LET m == ulMatch(line)
    IN  IF m > 0 THEN [line |-> substringFrom(line, m), change |-> -m]
        ELSE [line |-> <<"-", " ">> \o line, change |-> 2]

olRule(line) ==
    LET m == olMatch(line).len
    IN  IF m > 0 THEN [line |-> substringFrom(line, m), change |-> -m]
        ELSE [line |-> <<"1", ".", " ">> \o line, change |-> 3]

blockquoteRule(line) ==
    IF startsWith(line, <<">", " ">>)
    THEN [line |-> substringFrom(line, 2), change |-> -2]
    ELSE [line |-> <<">", " ">> \o line, change |-> 2]

lineRule(action, line) ==
    CASE action = "heading" -> headingRule(line)
      [] action = "ul" -> ulRule(line)
      [] action = "ol" -> olRule(line)
      [] action = "blockquote" -> blockquoteRule(line)

\* the line renumbered: the number, ". " and lineContent, the text after the
\* first '.' and one more character
renumbered(line, currentOlNumber) ==
    numberToString(currentOlNumber) \o <<".", " ">> \o substringFrom(line, indexOf(line, ".") + 2)

\* The renumbering loop from index i on over modifiedLines ml
RECURSIVE olPass(_, _, _, _, _, _, _)
olPass(ml, i, startLineIndex, endLineIndex, selectionLinesWereOl, currentOlNumber, inOlBlock) ==
    IF i >= Len(ml) THEN ml
    ELSE LET line == ml[i + 1]
             inSelection == i >= startLineIndex /\ i <= endLineIndex
             currentLineIsNowOl == ol1Match(line) /\ ~selectionLinesWereOl /\ inSelection
             existingOlItem == olMatch(line)
             isOl == existingOlItem.len > 0
             startNumber == IF inOlBlock THEN currentOlNumber ELSE 1
         IN  IF inSelection /\ currentLineIsNowOl
             THEN olPass([ml EXCEPT ![i + 1] = renumbered(line, startNumber)], i + 1,
                         startLineIndex, endLineIndex, selectionLinesWereOl,
                         startNumber + 1, TRUE)
             ELSE IF inSelection /\ ~isOl
             THEN olPass(ml, i + 1, startLineIndex, endLineIndex, selectionLinesWereOl,
                         currentOlNumber, FALSE)
             ELSE IF inSelection /\ inOlBlock
             THEN olPass([ml EXCEPT ![i + 1] = renumbered(line, currentOlNumber)], i + 1,
                         startLineIndex, endLineIndex, selectionLinesWereOl,
                         currentOlNumber + 1, TRUE)
             ELSE IF inSelection
             THEN olPass(ml, i + 1, startLineIndex, endLineIndex, selectionLinesWereOl,
                         parseInt(existingOlItem.num) + 1, TRUE)
             ELSE IF inOlBlock /\ isOl
             THEN olPass([ml EXCEPT ![i + 1] = renumbered(line, currentOlNumber)], i + 1,
                         startLineIndex, endLineIndex, selectionLinesWereOl,
                         currentOlNumber + 1, TRUE)
             ELSE olPass(ml, i + 1, startLineIndex, endLineIndex, selectionLinesWereOl,
                         currentOlNumber, FALSE)

RECURSIVE sumOver(_, _, _)
sumOver(f, a, b) == IF a > b THEN 0 ELSE f[a] + sumOver(f, a + 1, b)

\* Math.max(0, selectionStart + firstModifiedLinePrefixLengthChange)
newCursorPos(selStart, firstChange) == Max(0, selStart + firstChange)

\* the staged end, were it not held at the staged start
desiredEndUnclamped(cursorPos, selEnd, totalLengthChangeInSelection) ==
    selEnd + totalLengthChangeInSelection

\* Math.max(newCursorPos, selectionEnd + totalLengthChangeInSelection)
desiredEnd(cursorPos, selEnd, totalLengthChangeInSelection) ==
    Max(cursorPos, selEnd + totalLengthChangeInSelection)

\* Everything modifySelectedLines computes from what it reads of the textarea
modifyResult(action, text, selStart, selEnd) ==
    LET lines == split(text)
        range == lineRange(text, selStart, selEnd)
        startLineIndex == range[1]
        endLineIndex == range[2]
        inSelection(i) == i >= startLineIndex /\ i <= endLineIndex
        mapped == [k \in 1..Len(lines) |->
                      IF inSelection(k - 1) THEN lineRule(action, lines[k]).line
                      ELSE lines[k]]
        firstChange == IF inSelection(startLineIndex)
                       THEN lineRule(action, lines[startLineIndex + 1]).change
                       ELSE 0
        selectionLinesWereOl ==
            \A i \in startLineIndex..endLineIndex : olMatch(lines[i + 1]).len > 0
        modifiedLines ==
            IF action = "ol"
            THEN olPass(mapped, 0, startLineIndex, endLineIndex, selectionLinesWereOl, 1, FALSE)
            ELSE mapped
        change == [k \in 1..Len(lines) |-> Len(modifiedLines[k]) - Len(lines[k])]
        total == sumOver(change, startLineIndex + 1, endLineIndex + 1)
        cursorPos == newCursorPos(selStart, firstChange)
    IN  [newMarkdown |-> join(modifiedLines),
         desiredStart |-> cursorPos,
         desiredEnd |-> desiredEnd(cursorPos, selEnd, total),
         startLineIndex |-> startLineIndex,
         endLineIndex |-> endLineIndex]

-----------------------------------------------------------------------------
(* The inline wrapper and the code block insertion.                        *)

\* the end of the staged selection, were the placeholder's length forgotten
wrapSelEndNoPlaceholder(newSelStart, selectedText, defaultText) ==
    newSelStart + Len(selectedText)

\* newSelEnd of either branch
wrapSelEnd(newSelStart, selectedText, defaultText) ==
    IF Len(selectedText) > 0 THEN newSelStart + Len(selectedText)
    ELSE newSelStart + Len(defaultText)

\* Everything insertTextAroundSelection computes
insertResult(text, selStart, selEnd, prefix, suffix, defaultText) ==
    LET selectedText == substring(text, selStart, selEnd)
        newText == IF Len(selectedText) > 0
                   THEN substring(text, 0, selStart) \o prefix \o selectedText \o suffix
                            \o substringFrom(text, selEnd)
                   ELSE substring(text, 0, selStart) \o prefix \o defaultText \o suffix
                            \o substringFrom(text, selEnd)
        newSelStart == selStart + Len(prefix)
    IN  [newMarkdown |-> newText,
         desiredStart |-> newSelStart,
         desiredEnd |-> wrapSelEnd(newSelStart, selectedText, defaultText)]

codeHere == <<"c", "o", "d", "e", " ", "h", "e", "r", "e">>

\* the backquote character, which a TLA+ string cannot hold
backquote == "BQ"

\* the fenced block template: newline, fence, "language", newline, "code here",
\* newline, fence, newline
codeBlock ==
    <<"\n", backquote, backquote, backquote, "l", "a", "n", "g", "u", "a", "g", "e", "\n">>
        \o codeHere \o <<"\n", backquote, backquote, backquote, "\n">>

\* codeBlock.indexOf('code here')
codeHereOffset ==
    CHOOSE k \in 0..Len(codeBlock) :
        /\ substring(codeBlock, k, k + Len(codeHere)) = codeHere
        /\ \A j \in 0..(k - 1) : substring(codeBlock, j, j + Len(codeHere)) # codeHere

\* Everything insertCodeBlock computes
codeBlockResult(text, selStart) ==
    LET cursorPos == selStart + codeHereOffset
    IN  [newMarkdown |-> substring(text, 0, selStart) \o codeBlock \o substringFrom(text, selStart),
         desiredStart |-> cursorPos,
         desiredEnd |-> cursorPos + Len(codeHere)]

\* The prefix, suffix and placeholder each toolbar button passes
boldText == <<"b", "o", "l", "d", " ", "t", "e", "x", "t">>
italicText == <<"i", "t", "a", "l", "i", "c", " ", "t", "e", "x", "t">>
linkText == <<"l", "i", "n", "k", " ", "t", "e", "x", "t">>
inlineCode == <<"i", "n", "l", "i", "n", "e", " ", "c", "o", "d", "e">>
imageAlt == <<"i", "m", "a", "g", "e">>

\* what the user answers to prompt(): the empty answer stands for a cancelled prompt
Urls == {<<>>, <<"u">>}
Alts == {<<>>, <<"p">>}

wrapArgs(id, url, alt) ==
    CASE id = "bold" -> [prefix |-> <<"*", "*">>, suffix |-> <<"*", "*">>, defaultText |-> boldText]
      [] id = "italic" -> [prefix |-> <<"*">>, suffix |-> <<"*">>, defaultText |-> italicText]
      [] id = "link" -> [prefix |-> <<"[">>, suffix |-> <<"]", "(">> \o url \o <<")">>,
                         defaultText |-> linkText]
      [] id = "image" -> [prefix |-> <<"!", "[">> \o (IF Len(alt) > 0 THEN alt ELSE imageAlt) \o <<"]">>,
                          suffix |-> <<"(">> \o url \o <<")">>, defaultText |-> <<>>]
      [] id = "code" -> [prefix |-> <<backquote>>, suffix |-> <<backquote>>,
                         defaultText |-> inlineCode]

WrapIds == {"bold", "italic", "link", "image", "code"}
LineActions == {"heading", "ul", "ol", "blockquote"}

-----------------------------------------------------------------------------
(* The initial Document: getMarkdownFromURL.                               *)

\* the characters with codes 0 to 127, the code being the index less one
Ascii ==
    <<"NUL", "SOH", "STX", "ETX", "EOT", "ENQ", "ACK", "BEL", "BS", "\t", "\n", "VT", "FF",
      "\r", "SO", "SI", "DLE", "DC1", "DC2", "DC3", "DC4", "NAK", "SYN", "ETB", "CAN", "EM",
      "SUB", "ESC", "FS", "GS", "RS", "US",
      " ", "!", "\"", "#", "$", "%", "&", "'", "(", ")", "*", "+", ",", "-", ".", "/",
      "0", "1", "2", "3", "4", "5", "6", "7", "8", "9", ":", ";", "<", "=", ">", "?",
      "@", "A", "B", "C", "D", "E", "F", "G", "H", "I", "J", "K", "L", "M", "N", "O",
      "P", "Q", "R", "S", "T", "U", "V", "W", "X", "Y", "Z", "[", "\\", "]", "^", "_",
      backquote, "a", "b", "c", "d", "e", "f", "g", "h", "i", "j", "k", "l", "m", "n", "o",
      "p", "q", "r", "s", "t", "u", "v", "w", "x", "y", "z", "{", "|", "}", "~", "DEL">>

HexDigits == <<"0", "1", "2", "3", "4", "5", "6", "7", "8", "9", "A", "B", "C", "D", "E", "F">>
LowerHex == <<"a", "b", "c", "d", "e", "f">>
isHex(c) == (\E k \in 1..16 : HexDigits[k] = c) \/ (\E k \in 1..6 : LowerHex[k] = c)
hexValue(c) ==
    IF \E k \in 1..16 : HexDigits[k] = c
    THEN (CHOOSE k \in 1..16 : HexDigits[k] = c) - 1
    ELSE (CHOOSE k \in 1..6 : LowerHex[k] = c) + 9

\* is there a percent escape of a character below 128 at offset i of s
escapeAt(s, i) ==
    /\ i + 3 <= Len(s)
    /\ s[i + 1] = "%"
    /\ isHex(s[i + 2]) /\ isHex(s[i + 3])
    /\ hexValue(s[i + 2]) < 8

escaped(s, i) == Ascii[16 * hexValue(s[i + 2]) + hexValue(s[i + 3]) + 1]

\* decodeURIComponent(s): the text, or a URIError for a '%' that starts no
\* escape (escapes of bytes above 127 are outside the alphabets used here)
RECURSIVE decodeFrom(_, _)
decodeFrom(s, i) ==
    IF i >= Len(s) THEN [ok |-> TRUE, text |-> <<>>]
    ELSE IF s[i + 1] = "%"
    THEN IF escapeAt(s, i)
         THEN LET rest == decodeFrom(s, i + 3)
              IN  [ok |-> rest.ok, text |-> <<escaped(s, i)>> \o rest.text]
         ELSE [ok |-> FALSE, text |-> <<>>]
    ELSE LET rest == decodeFrom(s, i + 1)
         IN  [ok |-> rest.ok, text |-> <<s[i + 1]>> \o rest.text]

decodeURIComponent(s) == decodeFrom(s, 0)

\* URLSearchParams.get: the parameter's value with '+' turned into a space
\* and every percent escape decoded; a '%' that starts no escape stays
RECURSIVE formDecodeFrom(_, _)
formDecodeFrom(s, i) ==
    IF i >= Len(s) THEN <<>>
    ELSE IF escapeAt(s, i) THEN <<escaped(s, i)>> \o formDecodeFrom(s, i + 3)
    ELSE IF s[i + 1] = "+" THEN <<" ">> \o formDecodeFrom(s, i + 1)
    ELSE <<s[i + 1]>> \o formDecodeFrom(s, i + 1)

\* the code of a character, its index in Ascii less one
codeOf(c) == (CHOOSE k \in 1..Len(Ascii) : Ascii[k] = c) - 1

\* the characters encodeURIComponent leaves as they are: letters, digits
\* and - _ . ! ~ * ' ( )
isUnreserved(c) ==
    \/ codeOf(c) \in 48..57
    \/ codeOf(c) \in 65..90
    \/ codeOf(c) \in 97..122
    \/ c \in {"-", "_", ".", "!", "~", "*", "'", "(", ")"}

\* encodeURIComponent(s) for characters below 128: every other character
\* becomes '%' and the two upper-case hexadecimal digits of its code
RECURSIVE encodeURIComponent(_)
encodeURIComponent(s) ==
    IF Len(s) = 0 THEN <<>>
    ELSE (IF isUnreserved(Head(s)) THEN <<Head(s)>>
          ELSE <<"%", HexDigits[(codeOf(Head(s)) \div 16) + 1], HexDigits[(codeOf(Head(s)) % 16) + 1]>>)
             \o encodeURIComponent(Tail(s))

\* the query string without an md parameter, and with md=raw
noParam == [present |-> FALSE, md |-> <<>>]
withParam(raw) == [present |-> TRUE, md |-> raw]

\* params.get('md'): null is modelled as absent
searchParamsGet(q) == [present |-> q.present, text |-> formDecodeFrom(q.md, 0)]

\* The built-in sample document, cut after its first heading
defaultInitialMarkdownLeft ==
    <<"\n", "#", " ", "W", "e", "l", "c", "o", "m", "e", " ", "t", "o", " ", "t", "h", "e", " ",
      "M", "a", "r", "k", "d", "o", "w", "n", " ", "E", "d", "i", "t", "o", "r", "!", "\n">>

\* decodeURIComponent applied to what params.get returned, as the source does
decodedQuery(mdFromQuery) == decodeURIComponent(mdFromQuery)

getMarkdownFromURL(q) ==
    LET mdFromQuery == searchParamsGet(q)
    IN  IF mdFromQuery.present /\ Len(mdFromQuery.text) > 0
        THEN IF decodedQuery(mdFromQuery.text).ok
             THEN decodedQuery(mdFromQuery.text).text
             ELSE defaultInitialMarkdownLeft
        ELSE defaultInitialMarkdownLeft

-----------------------------------------------------------------------------
(* The React update cycle.  A handler runs when the cycle is idle; a state *)
(* change is followed by the commit of the new render to the DOM and then  *)
(* by the effects whose dependencies changed, before the next event.       *)

noFile == [name |-> <<>>, type |-> ""]

\* the clipboard before anything was written to it
noClip == [kind |-> "none", search |-> noParam, html |-> <<>>]

noOp == [op |-> "none", kind |-> "none", prefix |-> <<>>, suffix |-> <<>>,
         defaultText |-> <<>>, document |-> <<>>, value |-> <<>>,
         selectionStart |-> 0, selectionEnd |-> 0,
         startLineIndex |-> 0, endLineIndex |-> 0, file |-> noFile, readers |-> {}]

\* what a callback reads when it starts
reading(op) ==
    [noOp EXCEPT !.op = op, !.document = leftMarkdown, !.value = value,
                 !.selectionStart = selectionStart, !.selectionEnd = selectionEnd,
                 !.readers = readers]

history == <<last, steps, doc0, sel0>>
fileVars == <<loadFileFeedback, feedbackTimers, readers, search>>
previewVars == <<documentOutput, previewTimers, handler, previewDeps>>
textareaVars == <<value, selectionStart, selectionEnd>>
desiredVars == <<leftDesiredSelectionStart, leftDesiredSelectionEnd>>
shareVars == <<shareLinkFeedback, shareTimers, shareWrites>>
copyVars == <<copyPreviewFeedback, copyTimers, copyWrites>>
statusVars == <<shareVars, copyVars, clipboard, shared>>

\* the three state setters a toolbar action calls, batched into one render
stage(r) ==
    /\ leftMarkdown' = r.newMarkdown
    /\ leftDesiredSelectionStart' = r.desiredStart
    /\ leftDesiredSelectionEnd' = r.desiredEnd
    /\ pc' = "render"

modifySelectedLines(action) ==
    /\ pc = "idle"
    /\ LET r == modifyResult(action, value, selectionStart, selectionEnd)
       IN  /\ stage(r)
           /\ last' = [reading("lines") EXCEPT !.kind = action,
                                                !.startLineIndex = r.startLineIndex,
                                                !.endLineIndex = r.endLineIndex]
    /\ steps' = steps + 1
    /\ UNCHANGED <<textareaVars, previewVars, fileVars, doc0, sel0, statusVars>>

insertTextAroundSelection(prefix, suffix, defaultText) ==
    /\ pc = "idle"
    /\ stage(insertResult(value, selectionStart, selectionEnd, prefix, suffix, defaultText))
    /\ last' = [reading("wrap") EXCEPT !.prefix = prefix, !.suffix = suffix,
                                       !.defaultText = defaultText]
    /\ steps' = steps + 1
    /\ UNCHANGED <<textareaVars, previewVars, fileVars, doc0, sel0, statusVars>>

\* a toolbar button of the wrapping kind; link and image ask for a URL first
\* and do nothing when the answer is empty
wrapButton(id, url, alt) ==
    /\ id \in {"link", "image"} => Len(url) > 0
    /\ LET a == wrapArgs(id, url, alt)
       IN  insertTextAroundSelection(a.prefix, a.suffix, a.defaultText)

insertCodeBlock ==
    /\ pc = "idle"
    /\ stage(codeBlockResult(value, selectionStart))
    /\ last' = reading("codeblock")
    /\ steps' = steps + 1
    /\ UNCHANGED <<textareaVars, previewVars, fileVars, doc0, sel0, statusVars>>

\* The commit: the controlled textarea takes the new Document; a value set by
\* the program puts the caret at the end of the text.
render ==
    /\ pc = "render"
    /\ value' = leftMarkdown
    /\ IF value # leftMarkdown
       THEN selectionStart' = Len(leftMarkdown) /\ selectionEnd' = Len(leftMarkdown)
       ELSE UNCHANGED <<selectionStart, selectionEnd>>
    /\ pc' = "effects"
    /\ UNCHANGED <<leftMarkdown, desiredVars, previewVars, fileVars, statusVars, history>>

\* the pending timers, were the effect to return no cleanup
keptTimers(timers, h) == timers

\* the cleanup of the previous run: clearTimeout(handler)
clearedTimers(timers, h) == timers \ {h}

\* the debounced preview effect, run when leftMarkdown changed
previewEffect ==
    IF previewDeps # leftMarkdown
    THEN LET t == <<steps, leftMarkdown>>
         IN  /\ previewTimers' = clearedTimers(previewTimers, handler) \cup {t}
             /\ handler' = t
             /\ previewDeps' = leftMarkdown
    ELSE UNCHANGED <<previewTimers, handler, previewDeps>>

\* textarea.setSelectionRange(start, end): both clamped to the text
setSelectionRange(start, end) ==
    LET e == Min(end, Len(value))
        s == Min(Min(start, Len(value)), e)
    IN  selectionStart' = s /\ selectionEnd' = e

\* the test of the selection effect, were the effect to run on mount only
selectionEffectOnMountOnly(start, end) == FALSE

\* the test of the selection effect: both staged values are set
selectionEffectRuns(start, end) == start # NULL /\ end # NULL

\* the selection effect, then the end of the cycle
effects ==
    /\ pc = "effects"
    /\ previewEffect
    /\ IF selectionEffectRuns(leftDesiredSelectionStart, leftDesiredSelectionEnd)
       THEN /\ setSelectionRange(leftDesiredSelectionStart, leftDesiredSelectionEnd)
            /\ leftDesiredSelectionStart' = NULL
            /\ leftDesiredSelectionEnd' = NULL
            /\ pc' = "render"
       ELSE /\ UNCHANGED <<selectionStart, selectionEnd, desiredVars>>
            /\ pc' = "idle"
    /\ UNCHANGED <<leftMarkdown, value, documentOutput, fileVars, statusVars, history>>

cycle == render \/ effects

-----------------------------------------------------------------------------
(* The other handlers: typing, clearing, loading a file, and the timers.   *)

\* marked.parse of the external converter: a function of the Document alone,
\* here the text in one paragraph, and nothing for an empty Document
markedParse(d) == IF Len(d) = 0 THEN <<>> ELSE <<"<p>">> \o d \o <<"</p>", "\n">>

\* handleLeftInputChange: the user's edit is in the textarea already
handleLeftInputChange(text) ==
    /\ pc = "idle"
    /\ text # value
    /\ value' = text
    /\ selectionStart' = Len(text)
    /\ selectionEnd' = Len(text)
    /\ leftMarkdown' = text
    /\ pc' = "render"
    /\ last' = reading("input")
    /\ steps' = steps + 1
    /\ UNCHANGED <<desiredVars, previewVars, fileVars, doc0, sel0, statusVars>>

handleClearLeftEditor ==
    /\ pc = "idle"
    /\ leftMarkdown' = <<>>
    /\ pc' = "render"
    /\ last' = reading("clear")
    /\ steps' = steps + 1
    /\ UNCHANGED <<textareaVars, desiredVars, previewVars, fileVars, doc0, sel0, statusVars>>

\* the callback of the debounce timer: setDocumentOutput(marked.parse(leftMarkdown))
\* with the leftMarkdown of the render that scheduled it
previewTimerFires ==
    /\ pc = "idle"
    /\ \E t \in previewTimers :
           /\ documentOutput' = markedParse(t[2])
           /\ previewTimers' = previewTimers \ {t}
    /\ pc' = "render"
    /\ last' = reading("previewTimer")
    /\ UNCHANGED <<leftMarkdown, textareaVars, desiredVars, handler, previewDeps, fileVars,
                   steps, doc0, sel0, statusVars>>

dotMd == <<".", "m", "d">>
dotMarkdown == <<".", "m", "a", "r", "k", "d", "o", "w", "n">>

\* does name hold the extension anywhere
RECURSIVE includes(_, _)
includes(name, ext) ==
    Len(name) >= Len(ext) /\ (startsWith(name, ext) \/ includes(Tail(name), ext))

\* the file type test, were it written with includes
invalidFileTypeByIncludes(file) ==
    /\ ~includes(file.name, dotMd)
    /\ ~includes(file.name, dotMarkdown)
    /\ file.type # "text/markdown"

\* the test of handleFileSelected that rejects a file
invalidFileType(file) ==
    /\ ~endsWith(file.name, dotMd)
    /\ ~endsWith(file.name, dotMarkdown)
    /\ file.type # "text/markdown"

invalidFileMessage == "Invalid file type. Please select a .md file."

\* setLoadFileFeedback(message) and the setTimeout that clears it later
feedback(message) ==
    /\ loadFileFeedback' = message
    /\ feedbackTimers' = feedbackTimers + 1

handleFileSelected(file) ==
    /\ pc = "idle"
    /\ IF invalidFileType(file)
       THEN /\ feedback(invalidFileMessage)
            /\ UNCHANGED readers
       ELSE /\ readers' = readers \cup {[id |-> steps, file |-> file]}
            /\ UNCHANGED <<loadFileFeedback, feedbackTimers>>
    /\ pc' = "render"
    /\ last' = [reading("file") EXCEPT !.file = file]
    /\ steps' = steps + 1
    /\ UNCHANGED <<leftMarkdown, textareaVars, desiredVars, previewVars, search, doc0, sel0, statusVars>>

\* the file dialog closed without a file: event.target.files is empty
handleNoFileSelected ==
    /\ pc = "idle"
    /\ last' = reading("nofile")
    /\ steps' = steps + 1
    /\ UNCHANGED <<leftMarkdown, textareaVars, desiredVars, previewVars, fileVars, pc, doc0, sel0, statusVars>>

\* reader.onload: the result is the file's text or, were it no string, nothing usable
readerOnload(r, text, isString) ==
    /\ pc = "idle"
    /\ r \in readers
    /\ readers' = readers \ {r}
    /\ IF isString
       THEN leftMarkdown' = text /\ feedback("File loaded successfully!")
       ELSE UNCHANGED leftMarkdown /\ feedback("Failed to read file content.")
    /\ pc' = "render"
    /\ last' = [reading(IF isString THEN "onload" ELSE "onloadNoString") EXCEPT !.file = r.file]
    /\ UNCHANGED <<textareaVars, desiredVars, previewVars, search, steps, doc0, sel0, statusVars>>

readerOnerror(r) ==
    /\ pc = "idle"
    /\ r \in readers
    /\ readers' = readers \ {r}
    /\ feedback("Error reading file.")
    /\ pc' = "render"
    /\ last' = [reading("onerror") EXCEPT !.file = r.file]
    /\ UNCHANGED <<leftMarkdown, textareaVars, desiredVars, previewVars, search, steps, doc0, sel0, statusVars>>

\* a timer set with a feedback message fires: setLoadFileFeedback('')
feedbackTimerFires ==
    /\ pc = "idle"
    /\ feedbackTimers > 0
    /\ feedbackTimers' = feedbackTimers - 1
    /\ loadFileFeedback' = ""
    /\ pc' = "render"
    /\ last' = reading("feedbackTimer")
    /\ UNCHANGED <<leftMarkdown, textareaVars, desiredVars, previewVars, readers, search,
                   steps, doc0, sel0, statusVars>>

\* the delays of the timers that clear a status message, in milliseconds
emptyDelay == 2000
feedbackDelay == 3000

\* !s.trim(): nothing but white space in s
isBlank(s) == \A k \in 1..Len(s) : s[k] \in {" ", "\t", "\n", "\r", "VT", "FF"}

\* the query string of shareUrl: ?md= and the encoded Document, in which
\* encodeURIComponent left no '&', '=', '+' or '#'
shareUrl(document) == withParam(encodeURIComponent(document))

\* setTimeout(clear, delay) after the timers already pending
timerSet(timers, id, delay) == Append(timers, [id |-> id, delay |-> delay])

\* can timer k run now: no timer set before it is due before it or with it
mayFire(timers, k) == \A j \in 1..(k - 1) : timers[j].delay > timers[k].delay

without(timers, k) == SubSeq(timers, 1, k - 1) \o SubSeq(timers, k + 1, Len(timers))

\* handleShareLink up to its await: an empty editor is refused, otherwise
\* the link is handed to navigator.clipboard.writeText
handleShareLink ==
    /\ pc = "idle"
    /\ IF isBlank(leftMarkdown)
       THEN /\ shareLinkFeedback' = "Editor is empty!"
            /\ shareTimers' = timerSet(shareTimers, steps, emptyDelay)
            /\ UNCHANGED shareWrites
            /\ pc' = "render"
       ELSE /\ shareWrites' = shareWrites \cup
                    {[id |-> steps, search |-> shareUrl(leftMarkdown), document |-> leftMarkdown]}
            /\ UNCHANGED <<shareLinkFeedback, shareTimers, pc>>
    /\ last' = reading("share")
    /\ steps' = steps + 1
    /\ UNCHANGED <<leftMarkdown, textareaVars, desiredVars, previewVars, fileVars, copyVars,
                   clipboard, shared, doc0, sel0>>

\* handleShareLink after its await: the write succeeded or threw
shareWriteSettles(w, ok) ==
    /\ pc = "idle"
    /\ w \in shareWrites
    /\ shareWrites' = shareWrites \ {w}
    /\ IF ok
       THEN /\ clipboard' = [kind |-> "url", search |-> w.search, html |-> <<>>]
            /\ shared' = w.document
            /\ shareLinkFeedback' = "Link copied!"
       ELSE /\ UNCHANGED <<clipboard, shared>>
            /\ shareLinkFeedback' = "Failed to copy!"
    /\ shareTimers' = timerSet(shareTimers, w.id, feedbackDelay)
    /\ pc' = "render"
    /\ last' = reading(IF ok THEN "shareCopied" ELSE "shareFailed")
    /\ UNCHANGED <<leftMarkdown, textareaVars, desiredVars, previewVars, fileVars, copyVars,
                   steps, doc0, sel0>>

\* a timer set by handleShareLink fires: setShareLinkFeedback('')
shareTimerFires ==
    /\ pc = "idle"
    /\ \E k \in 1..Len(shareTimers) :
           /\ mayFire(shareTimers, k)
           /\ shareTimers' = without(shareTimers, k)
    /\ shareLinkFeedback' = ""
    /\ pc' = "render"
    /\ last' = reading("shareTimer")
    /\ UNCHANGED <<leftMarkdown, textareaVars, desiredVars, previewVars, fileVars, shareWrites,
                   copyVars, clipboard, shared, steps, doc0, sel0>>

\* what navigator.clipboard offers: write, only writeText, or neither
ClipboardApis == {"write", "writeText", "none"}

\* handleCopyPreviewContent up to its await: an empty preview is refused,
\* a browser without a clipboard fails at once, otherwise the content is
\* handed to the clipboard
handleCopyPreviewContent(api) ==
    /\ pc = "idle"
    /\ IF isBlank(documentOutput)
       THEN /\ copyPreviewFeedback' = "Preview is empty!"
            /\ copyTimers' = timerSet(copyTimers, steps, emptyDelay)
            /\ UNCHANGED copyWrites
            /\ pc' = "render"
       ELSE IF api = "none"
       THEN /\ copyPreviewFeedback' = "Failed to copy content!"
            /\ copyTimers' = timerSet(copyTimers, steps, feedbackDelay)
            /\ UNCHANGED copyWrites
            /\ pc' = "render"
       ELSE /\ copyWrites' = copyWrites \cup {[id |-> steps, api |-> api, html |-> documentOutput]}
            /\ UNCHANGED <<copyPreviewFeedback, copyTimers, pc>>
    /\ last' = reading("copy")
    /\ steps' = steps + 1
    /\ UNCHANGED <<leftMarkdown, textareaVars, desiredVars, previewVars, fileVars, shareVars,
                   clipboard, shared, doc0, sel0>>

\* handleCopyPreviewContent after its await
copyWriteSettles(w, ok) ==
    /\ pc = "idle"
    /\ w \in copyWrites
    /\ copyWrites' = copyWrites \ {w}
    /\ IF ok
       THEN /\ clipboard' = [kind |-> "html", search |-> noParam, html |-> w.html]
            /\ copyPreviewFeedback' = IF w.api = "write" THEN "Content copied!"
                                      ELSE "Content copied (as HTML text)!"
       ELSE /\ UNCHANGED clipboard
            /\ copyPreviewFeedback' = "Failed to copy content!"
    /\ copyTimers' = timerSet(copyTimers, w.id, feedbackDelay)
    /\ pc' = "render"
    /\ last' = reading(IF ok THEN "copyCopied" ELSE "copyFailed")
    /\ UNCHANGED <<leftMarkdown, textareaVars, desiredVars, previewVars, fileVars, shareVars,
                   shared, steps, doc0, sel0>>

\* a timer set by handleCopyPreviewContent fires: setCopyPreviewFeedback('')
copyTimerFires ==
    /\ pc = "idle"
    /\ \E k \in 1..Len(copyTimers) :
           /\ mayFire(copyTimers, k)
           /\ copyTimers' = without(copyTimers, k)
    /\ copyPreviewFeedback' = ""
    /\ pc' = "render"
    /\ last' = reading("copyTimer")
    /\ UNCHANGED <<leftMarkdown, textareaVars, desiredVars, previewVars, fileVars, shareVars,
                   copyWrites, clipboard, shared, steps, doc0, sel0>>

\* the link on the clipboard is opened: the page is loaded anew with the
\* link's query string, and the old page's timers and reads are gone
openSharedLink ==
    /\ pc = "idle"
    /\ clipboard.kind = "url"
    /\ search' = clipboard.search
    /\ leftMarkdown' = <<>>
    /\ value' = <<>>
    /\ selectionStart' = 0
    /\ selectionEnd' = 0
    /\ leftDesiredSelectionStart' = NULL
    /\ leftDesiredSelectionEnd' = NULL
    /\ documentOutput' = <<>>
    /\ previewTimers' = {}
    /\ handler' = NoTimer
    /\ previewDeps' = <<>>
    /\ loadFileFeedback' = ""
    /\ feedbackTimers' = 0
    /\ readers' = {}
    /\ shareLinkFeedback' = ""
    /\ shareTimers' = <<>>
    /\ shareWrites' = {}
    /\ copyPreviewFeedback' = ""
    /\ copyTimers' = <<>>
    /\ copyWrites' = {}
    /\ pc' = "unmounted"
    /\ last' = reading("open")
    /\ steps' = steps + 1
    /\ UNCHANGED <<clipboard, shared, doc0, sel0>>

\* the first render: useState(getMarkdownFromURL), the textarea shows the
\* Document, and the preview effect schedules its first timer
mount ==
    /\ pc = "unmounted"
    /\ LET d == getMarkdownFromURL(search)
       IN  /\ leftMarkdown' = d
           /\ value' = d
           /\ selectionStart' = Len(d)
           /\ selectionEnd' = Len(d)
           /\ previewTimers' = {<<0, d>>}
           /\ handler' = <<0, d>>
           /\ previewDeps' = d
           /\ doc0' = d
           /\ sel0' = <<Len(d), Len(d)>>
    /\ pc' = "idle"
    /\ UNCHANGED <<desiredVars, documentOutput, fileVars, statusVars, last, steps>>

-----------------------------------------------------------------------------
(* Initial states.  The editor is mounted: the textarea shows the Document *)
(* and the preview effect of the first render has scheduled its timer.     *)

mounted(d, s, e) ==
    /\ leftMarkdown = d
    /\ value = d
    /\ selectionStart = s
    /\ selectionEnd = e
    /\ leftDesiredSelectionStart = NULL
    /\ leftDesiredSelectionEnd = NULL
    /\ documentOutput = <<>>
    /\ previewTimers = {<<0, d>>}
    /\ handler = <<0, d>>
    /\ previewDeps = d
    /\ loadFileFeedback = ""
    /\ feedbackTimers = 0
    /\ readers = {}
    /\ search = noParam
    /\ shareLinkFeedback = ""
    /\ shareTimers = <<>>
    /\ shareWrites = {}
    /\ copyPreviewFeedback = ""
    /\ copyTimers = <<>>
    /\ copyWrites = {}
    /\ clipboard = noClip
    /\ shared = <<>>
    /\ pc = "idle"
    /\ last = noOp
    /\ steps = 0
    /\ doc0 = d
    /\ sel0 = <<s, e>>

\* all strings over an alphabet of at most n characters
stringsUpTo(alphabet, n) == UNION {[1..k -> alphabet] : k \in 0..n}

\* all documents of at most n lines, each line from a set of lines
RECURSIVE docsOfLines(_, _)
docsOfLines(lineSet, n) ==
    IF n <= 1 THEN lineSet
    ELSE LET shorter == docsOfLines(lineSet, n - 1)
         IN  shorter \cup {d \o <<"\n">> \o l : d \in shorter, l \in lineSet}

anySelection(d, s, e) == s \in 0..Len(d) /\ e \in s..Len(d)

\* Documents and selections for the line mapping: only line lengths matter
MaxMapLen == 4
MapDocs == stringsUpTo({"a", "\n"}, MaxMapLen)

InitMap == \E d \in MapDocs : \E s, e \in 0..MaxMapLen : anySelection(d, s, e) /\ mounted(d, s, e)

MaxMapSteps == 1
NextMap ==
    \/ \E action \in LineActions : steps < MaxMapSteps /\ modifySelectedLines(action)
    \/ cycle

SpecMap == InitMap /\ [][NextMap]_vars

\* Documents with a caret for the heading cycle
MaxHeadingLen == 4
HeadingDocs == stringsUpTo({"a", "\n", "#", " "}, MaxHeadingLen)

InitHeading == \E d \in HeadingDocs : \E c \in 0..MaxHeadingLen : c <= Len(d) /\ mounted(d, c, c)

MaxHeadingSteps == 5
NextHeading ==
    \/ steps < MaxHeadingSteps /\ modifySelectedLines("heading")
    \/ cycle

SpecHeading == InitHeading /\ [][NextHeading]_vars

\* Documents with a caret for the unordered-list toggle
MaxUlLen == 4
UlDocs == stringsUpTo({"a", "\n", "-", " ", "\t"}, MaxUlLen)

InitUl == \E d \in UlDocs : \E c \in 0..MaxUlLen : c <= Len(d) /\ mounted(d, c, c)

MaxUlSteps == 2
NextUl ==
    \/ steps < MaxUlSteps /\ modifySelectedLines("ul")
    \/ cycle

SpecUl == InitUl /\ [][NextUl]_vars

\* Documents of whole lines, with any selection, for the ordered list
MaxOlLines == 4
OlLines == {<<"x">>, <<"1", ".", " ", "x">>, <<"9", ".", " ", "x">>, <<" ", "3", ".", "\t", "x">>}
OlDocs == docsOfLines(OlLines, MaxOlLines)

InitOl ==
    \E d \in OlDocs : \E s \in 0..Len(d) : \E e \in s..Len(d) : mounted(d, s, e)

MaxOlSteps == 1
NextOl ==
    \/ steps < MaxOlSteps /\ modifySelectedLines("ol")
    \/ cycle

SpecOl == InitOl /\ [][NextOl]_vars

\* Documents of whole lines, one of them marked twice so that it still carries
\* a marker once the action has stripped the first, with any selection
MaxRunLines == 3
RunLines == {<<"x">>, <<"9", ".", " ", "x">>, <<"1", ".", " ", "2", ".", " ", "x">>}
RunDocs == docsOfLines(RunLines, MaxRunLines)

InitOlRun ==
    \E d \in RunDocs : \E s \in 0..Len(d) : \E e \in s..Len(d) : mounted(d, s, e)

MaxRunSteps == 1
NextOlRun ==
    \/ steps < MaxRunSteps /\ modifySelectedLines("ol")
    \/ cycle

SpecOlRun == InitOlRun /\ [][NextOlRun]_vars

\* Documents with any selection for the inline wrapper
MaxWrapLen == 3
WrapDocs == stringsUpTo({"a", "\n"}, MaxWrapLen)

InitWrap == \E d \in WrapDocs : \E s, e \in 0..MaxWrapLen : anySelection(d, s, e) /\ mounted(d, s, e)

MaxWrapSteps == 1
NextWrap ==
    \/ \E id \in WrapIds, url \in Urls, alt \in Alts : steps < MaxWrapSteps /\ wrapButton(id, url, alt)
    \/ cycle

SpecWrap == InitWrap /\ [][NextWrap]_vars

\* Documents of whole lines with any selection for sequences of toolbar
\* actions; of the wrapping buttons, which differ only in their strings, one
\* with a placeholder and the one without
MaxToolbarLines == 2
ToolbarLines == {<<"a">>, <<"-", " ", " ">>, <<"9", ".", " ">>}
ToolbarDocs == docsOfLines(ToolbarLines, MaxToolbarLines)

InitToolbar ==
    \E d \in ToolbarDocs : \E s \in 0..Len(d) : \E e \in s..Len(d) : mounted(d, s, e)

MaxToolbarSteps == 2
NextToolbar ==
    \/ \E action \in LineActions : steps < MaxToolbarSteps /\ modifySelectedLines(action)
    \/ \E id \in {"bold", "image"}, url \in Urls :
           steps < MaxToolbarSteps /\ wrapButton(id, url, <<>>)
    \/ steps < MaxToolbarSteps /\ insertCodeBlock
    \/ cycle

SpecToolbar == InitToolbar /\ [][NextToolbar]_vars

\* the page before its first render, opened with query string q
unmounted(q) ==
    /\ leftMarkdown = <<>>
    /\ value = <<>>
    /\ selectionStart = 0
    /\ selectionEnd = 0
    /\ leftDesiredSelectionStart = NULL
    /\ leftDesiredSelectionEnd = NULL
    /\ documentOutput = <<>>
    /\ previewTimers = {}
    /\ handler = NoTimer
    /\ previewDeps = <<>>
    /\ loadFileFeedback = ""
    /\ feedbackTimers = 0
    /\ readers = {}
    /\ search = q
    /\ shareLinkFeedback = ""
    /\ shareTimers = <<>>
    /\ shareWrites = {}
    /\ copyPreviewFeedback = ""
    /\ copyTimers = <<>>
    /\ copyWrites = {}
    /\ clipboard = noClip
    /\ shared = <<>>
    /\ pc = "unmounted"
    /\ last = noOp
    /\ steps = 0
    /\ doc0 = <<>>
    /\ sel0 = <<0, 0>>

\* Query strings: no md parameter, or any value of the parameter over a few
\* characters, and the value %23%20Hi
MaxQueryLen == 4
hiQuery == <<"%", "2", "3", "%", "2", "0", "H", "i">>
Queries ==
    {noParam} \cup {withParam(raw) : raw \in stringsUpTo({"%", "2", "5", "H"}, MaxQueryLen) \cup {hiQuery}}

InitUrl == \E q \in Queries : unmounted(q)

NextUrl == mount \/ cycle \/ previewTimerFires

SpecUrl == InitUrl /\ [][NextUrl]_vars

\* The editor, opened with or without a shared document, under a few user
\* actions: typing, clearing, toolbar buttons and file loads
AppQueries == {noParam, withParam(<<"H", "i">>)}
TypedDocs == {<<"a">>, <<"a", "\n", "b">>}
Files ==
    {[name |-> <<"n", ".", "t", "x", "t">>, type |-> "text/plain"],
     [name |-> <<"a", ".", "m", "d", ".", "t">>, type |-> ""],
     [name |-> <<"a", ".", "m", "d">>, type |-> ""],
     [name |-> <<"b">> \o dotMarkdown, type |-> ""],
     [name |-> <<"n", ".", "t", "x", "t">>, type |-> "text/markdown"]}
FileTexts == {<<"f">>}

InitApp == \E q \in AppQueries : unmounted(q)

MaxAppSteps == 2
userAction ==
    \/ \E text \in TypedDocs : handleLeftInputChange(text)
    \/ handleClearLeftEditor
    \/ modifySelectedLines("heading")
    \/ wrapButton("bold", <<>>, <<>>)
    \/ insertCodeBlock
    \/ \E file \in Files : handleFileSelected(file)
    \/ handleNoFileSelected

NextApp ==
    \/ mount
    \/ steps < MaxAppSteps /\ userAction
    \/ \E r \in readers, text \in FileTexts, isString \in BOOLEAN : readerOnload(r, text, isString)
    \/ \E r \in readers : readerOnerror(r)
    \/ feedbackTimerFires
    \/ previewTimerFires
    \/ cycle

SpecApp == InitApp /\ [][NextApp]_vars

\* The browser runs every pending timer and React finishes every update
FairSpecApp == SpecApp /\ WF_vars(cycle) /\ WF_vars(previewTimerFires)

\* The status messages: an empty, a blank and a written editor, whose preview
\* is empty until its first render, under repeated share, copy and file
\* actions
StatusDocs == {<<>>, <<" ">>, <<"a">>}
StatusFiles ==
    {[name |-> <<"n", ".", "t", "x", "t">>, type |-> "text/plain"],
     [name |-> <<"a", ".", "m", "d">>, type |-> ""]}

InitStatus == \E d \in StatusDocs : mounted(d, Len(d), Len(d))

MaxStatusSteps == 2
statusAction ==
    \/ handleShareLink
    \/ \E api \in ClipboardApis : handleCopyPreviewContent(api)
    \/ \E file \in StatusFiles : handleFileSelected(file)

NextStatus ==
    \/ steps < MaxStatusSteps /\ statusAction
    \/ \E w \in shareWrites, ok \in BOOLEAN : shareWriteSettles(w, ok)
    \/ \E w \in copyWrites, ok \in BOOLEAN : copyWriteSettles(w, ok)
    \/ \E r \in readers, text \in FileTexts, isString \in BOOLEAN : readerOnload(r, text, isString)
    \/ \E r \in readers : readerOnerror(r)
    \/ shareTimerFires
    \/ copyTimerFires
    \/ feedbackTimerFires
    \/ previewTimerFires
    \/ cycle

SpecStatus == InitStatus /\ [][NextStatus]_vars

\* The browser runs every pending timer and React finishes every update
FairSpecStatus ==
    /\ SpecStatus
    /\ WF_vars(cycle)
    /\ WF_vars(shareTimerFires)
    /\ WF_vars(copyTimerFires)
    /\ WF_vars(feedbackTimerFires)

\* Sharing and opening the link: Documents over a few characters, among them
\* '%', a digit pair that makes an escape with it, a letter and white space
MaxShareLen == 3
ShareDocs == stringsUpTo({"%", "4", "1", "a", " "}, MaxShareLen)

InitShare == \E d \in ShareDocs : mounted(d, Len(d), Len(d))

MaxShareSteps == 2
NextShare ==
    \/ steps < MaxShareSteps /\ handleShareLink
    \/ \E w \in shareWrites, ok \in BOOLEAN : shareWriteSettles(w, ok)
    \/ steps < MaxShareSteps /\ openSharedLink
    \/ mount
    \/ shareTimerFires
    \/ previewTimerFires
    \/ cycle

SpecShare == InitShare /\ [][NextShare]_vars

-----------------------------------------------------------------------------
(* Vocabulary of the properties: lines and selections as the data model    *)
(* defines them, independent of the loop of modifySelectedLines.           *)

\* the index of the line that holds offset c of document d
lineOf(d, c) == Cardinality({k \in 1..c : d[k] = "\n"})

\* the offset at which line i of d starts
lineStartOf(d, i) ==
    IF i = 0 THEN 0
    ELSE CHOOSE c \in 1..Len(d) : d[c] = "\n" /\ lineOf(d, c) = i

\* the lines a selection touches: an end on the first character of a line
\* does not pull that line in, a caret touches its own line
firstTouched(d, s, e) == lineOf(d, s)
lastTouched(d, s, e) ==
    IF e > s /\ e = lineStartOf(d, lineOf(d, e)) THEN lineOf(d, e) - 1 ELSE lineOf(d, e)

isPlainHeading(l) ==
    /\ ~startsWith(l, <<"#", " ">>)
    /\ ~startsWith(l, <<"#", "#", " ">>)
    /\ ~startsWith(l, <<"#", "#", "#", " ">>)

headingCycle(l, k) ==
    CASE k % 4 = 1 -> <<"#", " ">> \o l
      [] k % 4 = 2 -> <<"#", "#", " ">> \o l
      [] k % 4 = 3 -> <<"#", "#", "#", " ">> \o l
      [] k % 4 = 0 -> l

\* the number an ordered-list line carries, -1 when it carries none
olNumber(l) == IF olMatch(l).len > 0 THEN parseInt(olMatch(l).num) ELSE -1

\* the last line of the run of marked lines of ls that starts at line i
RECURSIVE runEnd(_, _)
runEnd(ls, i) ==
    IF i + 1 < Len(ls) /\ olNumber(ls[i + 2]) >= 0 THEN runEnd(ls, i + 1) ELSE i

-----------------------------------------------------------------------------
(* Properties of the line mapping and of the line transforms.              *)

\* C1: the line range modifySelectedLines computes for an in-bounds selection
\* satisfies 0 <= startLineIndex <= endLineIndex < lineCount.
C1_LineRangeOrdered ==
    last.op = "lines" =>
        /\ 0 <= last.startLineIndex
        /\ last.startLineIndex <= last.endLineIndex
        /\ last.endLineIndex < Len(split(last.value))

\* C2: with the caret anywhere in a plain line, k successive heading actions
\* leave that line at step k of the cycle H1, H2, H3, plain, H1 and leave all
\* other lines as they were.
C2_HeadingCycle ==
    LET i == lineOf(doc0, sel0[1])
        l == split(doc0)[i + 1]
    IN  (steps >= 1 /\ isPlainHeading(l)) =>
            split(leftMarkdown) = [split(doc0) EXCEPT ![i + 1] = headingCycle(l, steps)]

\* C3: two unordered-list actions on a line without an unordered-list marker
\* give back the original line and document.
C3_UlTwiceIsIdentity ==
    LET i == lineOf(doc0, sel0[1])
        l == split(doc0)[i + 1]
    IN  (steps = 2 /\ ulMatch(l) = 0) => leftMarkdown = doc0

\* C4: the ordered-list action on a selection touching n >= 1 lines, none of
\* them marked, turns the k-th of them into "k. " and its original text.
C4_OlNumbersSelection ==
    LET ls == split(doc0)
        a == firstTouched(doc0, sel0[1], sel0[2])
        b == lastTouched(doc0, sel0[1], sel0[2])
    IN  (steps = 1 /\ \A i \in a..b : olNumber(ls[i + 1]) = -1) =>
            \A i \in a..b :
                split(leftMarkdown)[i + 1] = numberToString(i - a + 1) \o <<".", " ">> \o ls[i + 1]

\* C5: the ordered-list action with the caret in an unmarked line that lies
\* between two marked lines leaves that line and the marked lines that follow
\* it numbered consecutively, each one more than the line before.
C5_OlRenumbersRun ==
    LET ls == split(doc0)
        i == lineOf(doc0, sel0[1])
        new == split(leftMarkdown)
    IN  ( /\ steps = 1
          /\ sel0[1] = sel0[2]
          /\ i >= 1 /\ i + 1 < Len(ls)
          /\ olNumber(ls[i + 1]) = -1
          /\ olNumber(ls[i]) >= 0
          /\ olNumber(ls[i + 2]) >= 0 ) =>
            /\ olNumber(new[i + 1]) >= 0
            /\ \A j \in (i + 1)..runEnd(ls, i) : olNumber(new[j + 1]) = olNumber(new[j]) + 1

\* C11: after the ordered-list action, a line that carried an ordered-list
\* marker with number n before the action, still carries one, and is met
\* while no run is active (it is the first line or follows an unmarked line),
\* inside the edited range or outside it, is followed by marked lines
\* numbered n+1, n+2, ... in order.
C11_OlAdoptsExistingNumber ==
    LET ls == split(doc0)
        new == split(leftMarkdown)
    IN  steps = 1 =>
            \A j \in 0..(Len(new) - 1) :
                ( /\ olNumber(ls[j + 1]) >= 0
                  /\ olNumber(new[j + 1]) >= 0
                  /\ (j = 0 \/ olNumber(new[j]) = -1) ) =>
                    \A k \in (j + 1)..runEnd(new, j) :
                        olNumber(new[k + 1]) = olNumber(new[j + 1]) + (k - j)

-----------------------------------------------------------------------------
(* Properties of the inline wrapper and of the staged selection.           *)

staged == leftDesiredSelectionStart # NULL /\ leftDesiredSelectionEnd # NULL

\* the text the wrapper puts between prefix and suffix: the selected text, or
\* the placeholder when the selection is empty
wrapped ==
    IF last.selectionStart # last.selectionEnd
    THEN SubSeq(last.value, last.selectionStart + 1, last.selectionEnd)
    ELSE last.defaultText

\* C6: insertTextAroundSelection gives d[0..s) + prefix + X + suffix + d[e..)
\* and stages (s + |prefix|, s + |prefix| + |X|), which spans exactly X in the
\* new document.
C6_WrapResult ==
    last.op = "wrap" =>
        /\ leftMarkdown = SubSeq(last.value, 1, last.selectionStart) \o last.prefix \o wrapped
                              \o last.suffix
                              \o SubSeq(last.value, last.selectionEnd + 1, Len(last.value))
        /\ staged =>
               /\ leftDesiredSelectionStart = last.selectionStart + Len(last.prefix)
               /\ leftDesiredSelectionEnd = leftDesiredSelectionStart + Len(wrapped)
               /\ SubSeq(leftMarkdown, leftDesiredSelectionStart + 1, leftDesiredSelectionEnd) = wrapped

\* a caret was wrapped and the placeholder is staged to be selected
C6_Witness ==
    /\ last.op = "wrap"
    /\ staged
    /\ last.selectionStart = last.selectionEnd
    /\ last.selectionStart >= 1
    /\ Len(last.defaultText) > 0
    /\ leftDesiredSelectionEnd > leftDesiredSelectionStart

\* C10: after any sequence of toolbar actions the staged selection satisfies
\* 0 <= newStart <= newEnd <= length(newDocument).
C10_StagedSelectionInBounds ==
    staged =>
        /\ 0 <= leftDesiredSelectionStart
        /\ leftDesiredSelectionStart <= leftDesiredSelectionEnd
        /\ leftDesiredSelectionEnd <= Len(leftMarkdown)

\* a second action, a line transform that strips a marker longer than the
\* caret's column, so that the shifted end would fall before the staged start
C10_Witness ==
    /\ staged
    /\ steps = 2
    /\ last.op = "lines"
    /\ Len(leftMarkdown) < Len(last.value)
    /\ last.selectionEnd + (Len(leftMarkdown) - Len(last.value)) < leftDesiredSelectionStart

\* C14: a line transform applied with a caret in line i stages a caret that
\* lies in line i of the new document.
C14_CaretStaysInLine ==
    (last.op = "lines" /\ last.selectionStart = last.selectionEnd /\ staged) =>
        lineOf(leftMarkdown, leftDesiredSelectionStart) = lineOf(last.value, last.selectionStart)

\* the callbacks that stage a selection
toolbarOps == {"lines", "wrap", "codeblock"}

\* the step that applies the staged selection: the textarea holds the
\* Document of the action that staged it, takes the staged selection, and the
\* staged values are reset
appliesStaged ==
    /\ pc = "effects"
    /\ last.op \in toolbarOps
    /\ value = leftMarkdown
    /\ selectionStart' = leftDesiredSelectionStart
    /\ selectionEnd' = leftDesiredSelectionEnd
    /\ leftDesiredSelectionStart' = NULL
    /\ leftDesiredSelectionEnd' = NULL

\* C12: no staged value is left when no update is pending; a staged selection
\* is set only by a toolbar action, is not replaced while it waits, goes away
\* only in the one step that applies it to the textarea holding the new
\* Document and resets both values; the effect moves the selection at no
\* other time; and every staged selection is applied in the end.
C12_StagedAppliedOnce ==
    /\ [](pc = "idle" => (leftDesiredSelectionStart = NULL /\ leftDesiredSelectionEnd = NULL))
    /\ [][(~staged /\ staged') => (pc = "idle" /\ last'.op \in toolbarOps)]_vars
    /\ [][(staged /\ staged') => UNCHANGED desiredVars]_vars
    /\ [][(staged /\ ~staged') => appliesStaged]_vars
    /\ [][(pc = "effects" /\ ~staged) => UNCHANGED <<selectionStart, selectionEnd>>]_vars
    /\ (staged ~> ~staged)

\* a staged selection of a placeholder was applied, and a later update, the
\* preview's, left it in place with nothing staged
C12_Witness ==
    /\ pc = "idle"
    /\ last.op = "previewTimer"
    /\ steps >= 1
    /\ selectionStart < selectionEnd
    /\ leftDesiredSelectionStart = NULL
    /\ leftDesiredSelectionEnd = NULL

-----------------------------------------------------------------------------
(* Properties of the file loader, the initial Document and the preview.    *)

\* a file with neither a Markdown name nor the Markdown type
lastChars(name, n) == IF Len(name) >= n THEN SubSeq(name, Len(name) - n + 1, Len(name)) ELSE name

notMarkdownFile(file) ==
    /\ lastChars(file.name, 3) # <<".", "m", "d">>
    /\ lastChars(file.name, 9) # <<".", "m", "a", "r", "k", "d", "o", "w", "n">>
    /\ file.type # "text/markdown"

\* C7: selecting a file that is not a Markdown file leaves the Document
\* unchanged, starts no read and sets the invalid-file-type status; a read
\* that fails or gives no string leaves the Document unchanged.
C7_InvalidFileRejected ==
    /\ (last.op = "file" /\ notMarkdownFile(last.file)) =>
           /\ leftMarkdown = last.document
           /\ readers = last.readers
           /\ loadFileFeedback = invalidFileMessage
    /\ last.op \in {"onerror", "onloadNoString"} => leftMarkdown = last.document

\* a file whose name holds .md but does not end with it was rejected while
\* the editor held a Document
C7_Witness ==
    /\ last.op = "file"
    /\ notMarkdownFile(last.file)
    /\ includes(last.file.name, dotMd)
    /\ Len(leftMarkdown) > 0
    /\ loadFileFeedback = invalidFileMessage

\* the percent-decoded text of a parameter value, when it is well-formed
percentDecoded(raw) == decodeURIComponent(raw)

\* C8: the initial Document is the percent-decoded md parameter when that is
\* present and well-formed, and the sample document otherwise.
C8_InitialDocument ==
    pc # "unmounted" =>
        doc0 = IF search.present /\ percentDecoded(search.md).ok
               THEN percentDecoded(search.md).text
               ELSE defaultInitialMarkdownLeft

\* C9: at most one preview render is pending; once the update cycle has
\* settled, a pending render is the one of the latest Document; a render that
\* fires converts the latest Document; and in the end the preview is the
\* conversion of the Document.
C9_PreviewSafety ==
    /\ Cardinality(previewTimers) <= 1
    /\ pc = "idle" => \A t \in previewTimers : t[2] = leftMarkdown
    /\ (pc = "idle" /\ documentOutput # markedParse(leftMarkdown)) => previewTimers # {}
    /\ last.op = "previewTimer" => documentOutput = markedParse(leftMarkdown)

C9_DebouncedPreview ==
    /\ []C9_PreviewSafety
    /\ <>[](documentOutput = markedParse(leftMarkdown))

\* a change arrived while a render was pending, and the render of the new
\* Document is the only one pending
C9_Witness ==
    /\ pc = "idle"
    /\ steps = 2
    /\ last.op = "input"
    /\ documentOutput = <<>>
    /\ previewTimers = {<<steps, leftMarkdown>>}
    /\ leftMarkdown # doc0

\* does the step run a timer of a status message while the message shows
clearsShown(message, timers) == message # "" /\ Len(timers') < Len(timers)

\* C13: a timer that clears a status message that is showing is the timer of
\* the latest trigger of that message, the last one set, for the share, the
\* copy-preview and the file-load message alike; and every message is
\* cleared in the end.
C13_StatusTimerReset ==
    /\ [][(loadFileFeedback # "" /\ feedbackTimers' < feedbackTimers) => feedbackTimers = 1]_vars
    /\ [][clearsShown(shareLinkFeedback, shareTimers) =>
              shareTimers' = SubSeq(shareTimers, 1, Len(shareTimers) - 1)]_vars
    /\ [][clearsShown(copyPreviewFeedback, copyTimers) =>
              copyTimers' = SubSeq(copyTimers, 1, Len(copyTimers) - 1)]_vars
    /\ [](loadFileFeedback # "" => <>(loadFileFeedback = ""))
    /\ [](shareLinkFeedback # "" => <>(shareLinkFeedback = ""))
    /\ [](copyPreviewFeedback # "" => <>(copyPreviewFeedback = ""))

\* C15: the page opened from the link that the share action put on the
\* clipboard for a Document that is not blank starts with that Document.
C15_ShareRoundTrip ==
    (last.op = "open" /\ pc # "unmounted") => doc0 = shared

====
